---- MODULE Spec2Model ----
(***************************************************************************)
(* Model of klee-native.                                                   *)
(*                                                                         *)
(* Spec      the memory bridge: the special-function handlers of           *)
(*           lib/Core/SpecialFunctionHandler.cpp that translated code      *)
(*           calls to read, write, map, protect and query a native address *)
(*           space, with the symbolic overlay table and the symbolics.     *)
(* SpecLift  PreLifter::preLift: batching of the trace list, one lifting   *)
(*           thread per batch, the join, and the scan of the cache         *)
(*           directory that registers each file's module.                  *)
(* SpecFile  the file intercepts of SpecialFunctionHandler.cpp (open,      *)
(*           fstat, stat, readdir and the getters of their caches).        *)
(* SpecAlloc the allocator intercepts of runtime/Native/OS/Linux.          *)
(* SpecDescent, SpecSweep                                                  *)
(*           the two trace-marking passes of PreLifter.cpp, recursive      *)
(*           descent and linear sweep. Their bodies stand inside a         *)
(*           comment in this revision of the file; the model is of that    *)
(*           text, the only code of the passes.                            *)
(* FairDescent, FairSweep                                                  *)
(*           the same passes with weak fairness of their loop, for the     *)
(*           termination properties.                                       *)
(*                                                                         *)
(* Values are little-endian byte tuples (a 64-bit value is 8 bytes), so    *)
(* that the widths 8/16/32/64 keep their exact size.                       *)
(***************************************************************************)
EXTENDS Integers, Sequences, FiniteSets, Bags, TLC

\* ------------------------------------------------------------------ bounds
MaxAddr == 8
MaxSteps == 4
MaxSymbolics == 2

\* ------------------------------------------------------------ input domains
Addr == 0 .. (MaxAddr - 1)
Widths == {8, 16, 32, 64}
Handles == {1}
AccessAddrs == {0, 4}
MapArgs == {<<0, 4, "text">>, <<4, 4, "heap">>, <<0, 8, "heap">>}
FreeArgs == {<<0, 4>>, <<0, 8>>}
ProtectArgs == {<<0, 4>>} \X {<<TRUE, FALSE, FALSE>>, <<FALSE, TRUE, FALSE>>}
SymNames == {"x", "y"}

NBytes(w) == w \div 8

\* ------------------------------------------------------------- expressions
\* ref<Expr>: a ConstantExpr of a width, or a non-constant expression.
\* kind "reads": an expression whose kid 0 is a ReadExpr of array arr;
\* kind "op": a non-constant expression whose kid 0 is not a ReadExpr.
\* An array name is <<base, n>>: uniqueName gives base, base_1, base_2, ...
NoArr == <<"", 0>>

Const(v, w) == [kind |-> "const", val |-> v, arr |-> NoArr, width |-> w]

Reads(a, id, w) == [kind |-> "reads", val |-> <<id>>, arr |-> a, width |-> w]

OpExpr(w) == [kind |-> "op", val |-> <<2>>, arr |-> NoArr, width |-> w]

Unbound == [kind |-> "unbound", val |-> <<>>, arr |-> NoArr, width |-> 0]

isaConstantExpr(e) == e.kind = "const"

\* Expr::createPointer(n): a 64-bit constant
createPointer(n) == Const([i \in 1 .. 8 |-> IF i = 1 THEN n ELSE 0], 64)

\* ConstantExpr::create(b, Expr::Bool)
createBool(b) == Const(<<IF b THEN 1 ELSE 0>>, 1)

\* ~static_cast<uintN_t>(0)
AllOnes(w) == [i \in 1 .. NBytes(w) |-> 255]

\* static_cast<uintN_t>(value_uint)
Truncate(v, w) == [i \in 1 .. NBytes(w) |-> IF i <= Len(v) THEN v[i] ELSE 0]

Pattern(w) == [i \in 1 .. NBytes(w) |-> i]

ConcVals(w) == {Pattern(w)}

\* ------------------------------------------------------------------- state
VARIABLES
  maps,        \* AddressSpace: region table, per address (mapped, r, w, x, name)
  bytes,       \* AddressSpace: concrete backing store
  objects,     \* mem->symbolic_memory->objects: a bag of overlays (address, name)
  symbolics,   \* state.symbolics: MemoryObject name and array of each symbolic
  symStore,    \* bytes 0..3 of the ObjectState of each symbolic's MemoryObject
  aot_traces,  \* AddressSpace: region name -> module loaded for that region
  local,       \* what the handler bound to its target (bindLocal), and how often
  lastOp,      \* the handler call that ran last, with its arguments
  alive,       \* FALSE once a null dereference has ended the process
  steps,       \* number of state-changing calls so far
  trace_list,  \* the trace list file of the workspace: exists, addresses
  undecodable, \* trace addresses the lifter cannot translate
  workers,     \* PreLifter::workers: batch, thread position, trace table
  main,        \* the thread running preLift: position, loop index, scans
  dir,         \* <workspace>/prelift_traces: file name -> stored module
  dir_order,   \* the order in which readdir returns the files of dir
  scan1,       \* aot_traces as the first scan of the directory left it
  fstat_vector,  \* SpecialFunctionHandler::fstat_vector
  dirent_entry,  \* SpecialFunctionHandler::dirent_entry
  errno,         \* the error code of the host process
  hostLast,      \* what the host returned last on success: stat, dirent
  intercept,     \* the allocator intercept that ran last and its outcome
  code,               \* the bytes of the scanned map as the decoder sees them
  pass,               \* the marking pass under way: position and its locals
  q,                  \* RecursiveDescentPass: the deque of potential traces
  visited,            \* RecursiveDescentPass: addresses decoded so far
  decoder_work_list,  \* pairs (address, targeted) handed to the linear sweep
  new_lifted_traces   \* the keys of the trace map both passes fill

bridgeVars == <<maps, bytes, objects, symbolics, symStore, aot_traces, local,
                lastOp, alive, steps>>

liftVars == <<trace_list, undecodable, workers, main, dir, dir_order, scan1>>

fileVars == <<fstat_vector, dirent_entry, errno, hostLast>>

allocVars == <<intercept>>

markVars == <<code, pass, q, visited, decoder_work_list, new_lifted_traces>>

vars == <<bridgeVars, liftVars, fileVars, allocVars, markVars>>

\* a handler of the bridge touches neither the lifter, the file caches, the
\* allocator intercepts nor the marking passes
BridgeFrame == UNCHANGED <<liftVars, fileVars, allocVars, markVars>>

NoModule == [label |-> -1, traces |-> {}]

Unmapped == [mapped |-> FALSE, r |-> FALSE, w |-> FALSE, x |-> FALSE, name |-> ""]

NoOp == [op |-> "none", h |-> 0, addr |-> 0, width |-> 0, arg |-> Unbound,
         performed |-> FALSE, a2 |-> 0, a3 |-> 0]

Op(o, h, a, w, e, p) == [op |-> o, h |-> h, addr |-> a, width |-> w, arg |-> e,
                         performed |-> p, a2 |-> 0, a3 |-> 0]

\* bindLocal called n times, the last time with e
Bound(e, n) == [val |-> e, nbind |-> n]

\* --------------------------------------------------- AddressSpace (Native)
RangeOf(base, size) == {a \in Addr : base <= a /\ a < base + size}

CanRead(a) == a \in Addr /\ maps[a].mapped /\ maps[a].r

CanWrite(a) == a \in Addr /\ maps[a].mapped /\ maps[a].w

IsMapped(a) == a \in Addr /\ maps[a].mapped

\* TryRead(addr, uintN_t *): every byte of the access must be readable
TryReadOk(a, w) == \A i \in 0 .. (NBytes(w) - 1) : CanRead(a + i)

TryReadVal(a, w) == [i \in 1 .. NBytes(w) |-> bytes[a + i - 1]]

\* TryWrite(addr, uintN_t): every byte of the access must be writable
TryWriteOk(a, w) == \A i \in 0 .. (NBytes(w) - 1) : CanWrite(a + i)

TryWriteBytes(a, w, v) ==
  [b \in Addr |-> IF a <= b /\ b < a + NBytes(w) THEN v[b - a + 1] ELSE bytes[b]]

\* a new mapping replaces what was mapped in its range, is readable and
\* writable, and is zero-filled (ClearBytes)
AddMapMaps(base, size, name) ==
  [a \in Addr |-> IF a \in RangeOf(base, size)
                  THEN [mapped |-> TRUE, r |-> TRUE, w |-> TRUE, x |-> FALSE,
                        name |-> name]
                  ELSE maps[a]]

RemoveMapMaps(base, size) ==
  [a \in Addr |-> IF a \in RangeOf(base, size) THEN Unmapped ELSE maps[a]]

ClearBytes(base, size) ==
  [a \in Addr |-> IF a \in RangeOf(base, size) THEN 0 ELSE bytes[a]]

SetPermissionsMaps(base, size, r, w, x) ==
  [a \in Addr |-> IF a \in RangeOf(base, size) /\ maps[a].mapped
                  THEN [maps[a] EXCEPT !.r = r, !.w = w, !.x = x]
                  ELSE maps[a]]

\* [a, a+size) lies in [base, limit) and overlaps no mapped region
IsHole(a, base, limit, size) ==
  /\ base <= a
  /\ a + size <= limit
  /\ \A b \in a .. (a + size - 1) : ~IsMapped(b)

Holes(base, limit, size) ==
  {a \in base .. limit : size > 0 /\ IsHole(a, base, limit, size)}

FindHoleFound(base, limit, size) == Holes(base, limit, size) # {}

FindHoleAddr(base, limit, size) ==
  CHOOSE a \in Holes(base, limit, size) :
    \A b \in Holes(base, limit, size) : a <= b

\* FindRange(addr).Name()
RangeName(a) == IF IsMapped(a) THEN maps[a].name ELSE ""

\* the address space and the execution state before any handler ran
BridgeInit ==
  /\ maps = [a \in Addr |-> Unmapped]
  /\ bytes = [a \in Addr |-> 0]
  /\ objects = EmptyBag
  /\ symbolics = <<>>
  /\ symStore = <<>>
  /\ aot_traces = [n \in {} |-> NoModule]
  /\ local = Bound(Unbound, 0)
  /\ lastOp = NoOp
  /\ alive = TRUE
  /\ steps = 0

\* no trace list, no worker, an empty cache directory
LiftIdle ==
  /\ trace_list = [exists |-> FALSE, opens |-> FALSE, addrs |-> <<>>]
  /\ undecodable = {}
  /\ workers = <<>>
  /\ main = [pc |-> "idle", k |-> 0, scans |-> 0]
  /\ dir = [n \in {} |-> {}]
  /\ dir_order = <<>>
  /\ scan1 = [n \in {} |-> NoModule]

\* no struct dirent
NoDirent == [d_ino |-> <<>>, d_off |-> <<>>, d_reclen |-> <<>>, d_type |-> <<>>,
             d_name |-> ""]

\* the caches of the file intercepts, never filled
FileIdle ==
  /\ fstat_vector = <<>>
  /\ dirent_entry = NoDirent
  /\ errno = 0
  /\ hostLast = [stat |-> <<>>, dirent |-> NoDirent]

\* no allocator intercept ran
AllocIdle ==
  intercept = [fn |-> "none", args_ok |-> FALSE, ptr |-> <<>>, num |-> <<>>,
               size |-> <<>>, consulted |-> "none", request |-> <<>>,
               answer |-> <<>>,
               out |-> [ret |-> <<>>, handle |-> 1, aborted |-> FALSE]]

\* no marking pass has run
MarkIdle ==
  /\ code = <<>>
  /\ pass = [pc |-> "idle"]
  /\ q = <<>>
  /\ visited = {}
  /\ decoder_work_list = <<>>
  /\ new_lifted_traces = {}

Init == BridgeInit /\ LiftIdle /\ FileIdle /\ AllocIdle /\ MarkIdle

\* ------------------------------------------------- symbolics of the state
\* executeMakeSymbolic: the array gets the first unused of name, name_1, ...
UniqueName(name) ==
  <<name, Cardinality({i \in 1 .. Len(symbolics) : symbolics[i].arr[1] = name})>>

\* symbol == pairs.first->name: an array name against a MemoryObject name
NameEq(arr, moName) == arr = <<moName, 0>>

Matching(symbol) == {i \in 1 .. Len(symbolics) : NameEq(symbol, symbolics[i].name)}

Arrays == {symbolics[i].arr : i \in 1 .. Len(symbolics)}

\* the non-constant values translated code can pass: expressions over the
\* arrays that exist in the state
SymVals(w) ==
  {Reads(a, 1, w) : a \in Arrays}
    \cup (IF Arrays = {} \/ w # 32 THEN {} ELSE {OpExpr(w)})

handleMakeSymbolic(name) ==
  /\ BridgeFrame
  /\ alive /\ steps < MaxSteps
  /\ Len(symbolics) < MaxSymbolics
  /\ symbolics' = Append(symbolics, [name |-> name, arr |-> UniqueName(name)])
  /\ symStore' = Append(symStore, Reads(UniqueName(name), 0, 32))
  /\ lastOp' = Op("make_symbolic", 0, 0, 0, Unbound, TRUE)
  /\ local' = Bound(Unbound, 0)
  /\ steps' = steps + 1
  /\ UNCHANGED <<maps, bytes, objects, aot_traces, alive>>

\* ------------------------------------------------------------ overlay table
\* ImmutableMap::insert under MemoryObjectLT (keys compare by address): an
\* entry whose address is already present is not inserted
OverlayInsert(objs, addr, symbol) ==
  IF \E o \in BagToSet(objs) : o.address = addr
  THEN objs
  ELSE objs (+) SetToBag({[address |-> addr, name |-> symbol]})

OverlayAt(addr) == {o \in BagToSet(objects) : o.address = addr}

\* ------------------------------------------------------------ read handlers
\* a read whose value is preset to zero instead of all ones
read_concrete_zero_preset(w, addr) ==
  Bound(Const(IF TryReadOk(addr, w) THEN TryReadVal(addr, w)
                                    ELSE [i \in 1 .. NBytes(w) |-> 0], w), 1)

\* handle__remill_read_8 / _16 / _64: TryRead into a value preset to all ones
read_concrete(w, addr) ==
  Bound(Const(IF TryReadOk(addr, w) THEN TryReadVal(addr, w) ELSE AllOnes(w), w), 1)

\* handle__remill_read_32: the overlay at addr, if any, decides the result;
\* bindLocal runs once per symbolic whose name equals the overlay's
read_32_overlay(addr) ==
  LET symbol == (CHOOSE o \in OverlayAt(addr) : TRUE).name
      m == Matching(symbol)
  IN IF m = {}
     THEN Bound(Unbound, 0)
     ELSE Bound(symStore[CHOOSE i \in m : \A j \in m : j <= i], Cardinality(m))

read_32(addr) ==
  IF OverlayAt(addr) # {} THEN read_32_overlay(addr) ELSE read_concrete(32, addr)

remill_read(w, addr) == IF w = 32 THEN read_32(addr) ELSE read_concrete(w, addr)

handle__remill_read(h, w, addr) ==
  /\ BridgeFrame
  /\ alive
  /\ local' = remill_read(w, addr)
  /\ lastOp' = Op("read", h, addr, w, Unbound, TRUE)
  /\ UNCHANGED <<maps, bytes, objects, symbolics, symStore, aot_traces, alive, steps>>
\* ----------------------------------------------------------- write handlers
\* undefined behaviour: a member is read through the null result of dyn_cast,
\* a load from the unmapped page at address 0, which ends the process before
\* the handler binds anything
Crash(h, w, addr, value) ==
  /\ alive' = FALSE
  /\ local' = Bound(Unbound, 0)
  /\ lastOp' = Op("write", h, addr, w, value, FALSE)
  /\ steps' = steps + 1
  /\ UNCHANGED <<maps, bytes, objects, symbolics, symStore, aot_traces>>

\* handle__remill_write_64 / _16 / _8: mem_val when TryWrite succeeds, else
\* Expr::createPointer(0)
write_bind(h, ok) ==
  IF ok THEN Bound(createPointer(h), 1) ELSE Bound(createPointer(0), 1)

\* handle__remill_write_32: the bindLocal of the last line runs on every path,
\* after the bindLocal(mem_val) of a successful concrete write
write_32_bind(h, ok) ==
  IF ok THEN Bound(createPointer(0), 2) ELSE Bound(createPointer(0), 1)

TryWriteStore(w, addr, v) ==
  IF TryWriteOk(addr, w) THEN TryWriteBytes(addr, w, Truncate(v, w)) ELSE bytes

WriteConcrete(h, w, addr, v, value) ==
  /\ bytes' = TryWriteStore(w, addr, v)
  /\ local' = IF w = 32 THEN write_32_bind(h, TryWriteOk(addr, w))
                        ELSE write_bind(h, TryWriteOk(addr, w))
  /\ lastOp' = Op("write", h, addr, w, value, TryWriteOk(addr, w))
  /\ steps' = steps + 1
  /\ UNCHANGED <<maps, objects, symbolics, symStore, aot_traces, alive>>

\* handle__remill_write_32, value not a ConstantExpr and kid 0 a ReadExpr
\* (when kid 0 is no ReadExpr, re->updates is read through null):
\* for every symbolic named like the root array, an overlay at addr and a
\* write of the value at offset 0 of that symbolic's object
\* every new MemoryObject becomes an entry of the table
write_32_objects_always_adds(addr, symbol) ==
  IF Matching(symbol) # {}
  THEN objects (+) SetToBag({[address |-> addr, name |-> symbol]})
  ELSE objects

write_32_objects(addr, symbol) ==
  IF Matching(symbol) # {} THEN OverlayInsert(objects, addr, symbol) ELSE objects

write_32_store(value) ==
  [i \in 1 .. Len(symStore) |-> IF i \in Matching(value.arr) THEN value ELSE symStore[i]]

WriteSymbolic32(h, addr, value) ==
  /\ objects' = write_32_objects(addr, value.arr)
  /\ symStore' = write_32_store(value)
  /\ local' = Bound(createPointer(0), 1)
  /\ lastOp' = [Op("write", h, addr, 32, value, Matching(value.arr) # {})
                  EXCEPT !.a2 = Cardinality(OverlayAt(addr))]
  /\ steps' = steps + 1
  /\ UNCHANGED <<maps, bytes, symbolics, aot_traces, alive>>

handle__remill_write_32(h, addr, value) ==
  /\ BridgeFrame
  /\ alive /\ steps < MaxSteps
  /\ IF isaConstantExpr(value)
     THEN WriteConcrete(h, 32, addr, value.val, value)
     ELSE IF value.kind = "reads"
          THEN WriteSymbolic32(h, addr, value)
          ELSE Crash(h, 32, addr, value)

\* handle__remill_write_64 / _16 / _8: dyn_cast<ConstantExpr>(value_val) is
\* null for a non-constant value and getZExtValue() is called through it
handle__remill_write(h, w, addr, value) ==
  /\ BridgeFrame
  /\ alive /\ steps < MaxSteps
  /\ w # 32
  /\ IF isaConstantExpr(value)
     THEN WriteConcrete(h, w, addr, value.val, value)
     ELSE Crash(h, w, addr, value)
\* ------------------------------------------------------ region-table handlers
MapOp(o, h, base, size) == [Op(o, h, base, 0, Unbound, TRUE) EXCEPT !.a2 = size]

\* a region-table handler that binds the null handle
map_bind_null(h) == Bound(createPointer(0), 1)

\* bindLocal(target, state, mem_val)
map_bind(h) == Bound(createPointer(h), 1)

handle__kleemill_allocate_memory(h, base, size, name) ==
  /\ BridgeFrame
  /\ alive /\ steps < MaxSteps
  /\ maps' = AddMapMaps(base, size, name)
  /\ bytes' = ClearBytes(base, size)
  /\ local' = map_bind(h)
  /\ lastOp' = MapOp("allocate", h, base, size)
  /\ steps' = steps + 1
  /\ UNCHANGED <<objects, symbolics, symStore, aot_traces, alive>>

handle__kleemill_free_memory(h, base, size) ==
  /\ BridgeFrame
  /\ alive /\ steps < MaxSteps
  /\ maps' = RemoveMapMaps(base, size)
  /\ bytes' = ClearBytes(base, size)
  /\ local' = map_bind(h)
  /\ lastOp' = MapOp("free", h, base, size)
  /\ steps' = steps + 1
  /\ UNCHANGED <<objects, symbolics, symStore, aot_traces, alive>>

handle__kleemill_protect_memory(h, base, size, r, w, x) ==
  /\ BridgeFrame
  /\ alive /\ steps < MaxSteps
  /\ maps' = SetPermissionsMaps(base, size, r, w, x)
  /\ local' = map_bind(h)
  /\ lastOp' = MapOp("protect", h, base, size)
  /\ steps' = steps + 1
  /\ UNCHANGED <<bytes, objects, symbolics, symStore, aot_traces, alive>>

\* ------------------------------------------------------------- query handlers
\* a query that drops the permissions of what it looked at
QueryFrame_touching ==
  /\ maps' = [a \in Addr |-> [maps[a] EXCEPT !.r = FALSE]]
  /\ UNCHANGED <<bytes, objects, symbolics, symStore, aot_traces>>

\* what a query handler leaves of the address space and the symbolic state
QueryFrame == UNCHANGED <<maps, bytes, objects, symbolics, symStore, aot_traces>>

handle__kleemill_can_read_byte(h, addr) ==
  /\ BridgeFrame
  /\ alive
  /\ local' = Bound(createBool(CanRead(addr)), 1)
  /\ lastOp' = Op("can_read", h, addr, 0, Unbound, TRUE)
  /\ QueryFrame
  /\ UNCHANGED <<alive, steps>>

handle__kleemill_can_write_byte(h, addr) ==
  /\ BridgeFrame
  /\ alive
  /\ local' = Bound(createBool(CanWrite(addr)), 1)
  /\ lastOp' = Op("can_write", h, addr, 0, Unbound, TRUE)
  /\ QueryFrame
  /\ UNCHANGED <<alive, steps>>

handle__kleemill_is_mapped_address(h, addr) ==
  /\ BridgeFrame
  /\ alive
  /\ local' = Bound(createBool(IsMapped(addr)), 1)
  /\ lastOp' = Op("is_mapped", h, addr, 0, Unbound, TRUE)
  /\ QueryFrame
  /\ UNCHANGED <<alive, steps>>

\* handle__kleemill_find_unmapped_address: the hole when FindHole succeeds,
\* ConstantExpr 0 otherwise
find_unmapped_bind(base, limit, size) ==
  IF FindHoleFound(base, limit, size)
  THEN Bound(createPointer(FindHoleAddr(base, limit, size)), 1)
  ELSE Bound(createPointer(0), 1)

handle__kleemill_find_unmapped_address(h, base, limit, size) ==
  /\ BridgeFrame
  /\ alive
  /\ local' = find_unmapped_bind(base, limit, size)
  /\ lastOp' = [Op("find_hole", h, base, 0, Unbound, FindHoleFound(base, limit, size))
                  EXCEPT !.a2 = limit, !.a3 = size]
  /\ QueryFrame
  /\ UNCHANGED <<alive, steps>>

\* ----------------------------------------------------------- lifted functions
\* the llvm::Function of trace pc in the module loaded from cache file label
FuncPtr(mod, pc) == 16 * (mod.label + 1) + pc

\* Executor::GetLiftedFunction: the trace table of the region containing pc
GetLiftedFunction(pc) ==
  IF RangeName(pc) \in DOMAIN aot_traces /\ pc \in aot_traces[RangeName(pc)].traces
  THEN FuncPtr(aot_traces[RangeName(pc)], pc)
  ELSE 0

\* a lookup that binds whether a function was found instead of the function
get_lifted_bind_flag(func) == Bound(createPointer(IF func = 0 THEN 0 ELSE 1), 1)

\* Expr::createPointer(reinterpret_cast<uintptr_t>(func))
get_lifted_bind(func) == Bound(createPointer(func), 1)

handle__kleemill_get_lifted_function(h, pc) ==
  /\ BridgeFrame
  /\ alive
  /\ local' = get_lifted_bind(GetLiftedFunction(pc))
  /\ lastOp' = Op("get_lifted", h, pc, 0, Unbound, GetLiftedFunction(pc) # 0)
  /\ QueryFrame
  /\ UNCHANGED <<alive, steps>>

\* a table that keeps the module a region name already has
aot_register_first(page_name, mod) ==
  IF page_name \in DOMAIN aot_traces
  THEN aot_traces
  ELSE [n \in DOMAIN aot_traces \cup {page_name} |->
          IF n = page_name THEN mod ELSE aot_traces[n]]

\* aot_traces[page_name] = module: the entry of page_name is replaced
aot_register(page_name, mod) ==
  [n \in DOMAIN aot_traces \cup {page_name} |->
     IF n = page_name THEN mod ELSE aot_traces[n]]

\* PreLifter::preLift, one cache file: the module is registered under the name
\* of the region that contains the file's leading address
LoadCacheFile(label, traces) ==
  /\ BridgeFrame
  /\ alive /\ steps < MaxSteps
  /\ aot_traces' = aot_register(RangeName(label), [label |-> label, traces |-> traces])
  /\ lastOp' = Op("load", 0, label, 0, Unbound, TRUE)
  /\ local' = Bound(Unbound, 0)
  /\ steps' = steps + 1
  /\ UNCHANGED <<maps, bytes, objects, symbolics, symStore, alive>>

\* ------------------------------------------------------------ specification
LiftPcs == {0, 2, 4}
HoleArgs == {<<0, 8, 4>>, <<4, 8, 4>>, <<0, 4, 8>>}

\* a second expression over each array, written at the addresses after the
\* first only: which of two expressions comes first makes no difference
SecondVals(a) == IF a = 0 THEN {} ELSE {Reads(arr, 2, 32) : arr \in Arrays}

WriteVals(w) == {Const(v, w) : v \in ConcVals(w)} \cup SymVals(w)

Next ==
  \/ \E n \in SymNames : handleMakeSymbolic(n)
  \/ \E h \in Handles, w \in Widths, a \in AccessAddrs : handle__remill_read(h, w, a)
  \/ \E h \in Handles, a \in AccessAddrs :
       \E v \in WriteVals(32) \cup SecondVals(a) : handle__remill_write_32(h, a, v)
  \/ \E h \in Handles, w \in Widths \ {32}, a \in AccessAddrs :
       \E v \in WriteVals(w) : handle__remill_write(h, w, a, v)
  \/ \E h \in Handles, m \in MapArgs :
       handle__kleemill_allocate_memory(h, m[1], m[2], m[3])
  \/ \E h \in Handles, m \in FreeArgs : handle__kleemill_free_memory(h, m[1], m[2])
  \/ \E h \in Handles, p \in ProtectArgs :
       handle__kleemill_protect_memory(h, p[1][1], p[1][2], p[2][1], p[2][2], p[2][3])
  \/ \E h \in Handles, a \in AccessAddrs : handle__kleemill_can_read_byte(h, a)
  \/ \E h \in Handles, a \in AccessAddrs : handle__kleemill_can_write_byte(h, a)
  \/ \E h \in Handles, a \in AccessAddrs : handle__kleemill_is_mapped_address(h, a)
  \/ \E h \in Handles, g \in HoleArgs :
       handle__kleemill_find_unmapped_address(h, g[1], g[2], g[3])
  \/ \E h \in Handles, pc \in LiftPcs : handle__kleemill_get_lifted_function(h, pc)
  \/ \E l \in AccessAddrs : LoadCacheFile(l, {l})

Spec == Init /\ [][Next]_vars
\* ======================================================== PreLifter::preLift
\* ------------------------------------------------------------------ bounds
MaxTraces == 3
MaxScans == 2

\* ------------------------------------------------------------ input domains
\* the memory of the snapshot: three mapped regions, two of them named alike
LiftLayout ==
  [a \in Addr |-> [mapped |-> TRUE, r |-> TRUE, w |-> FALSE, x |-> TRUE,
                   name |-> IF a \in {4, 5} THEN "heap" ELSE "text"]]

TraceAddrs == {1, 2, 5, 7}

IsSortedList(s) == \A i \in 1 .. (Len(s) - 1) : s[i] < s[i + 1]

\* the trace lists the snapshot tool writes: sorted trace heads
TraceLists ==
  {s \in UNION {[1 .. n -> TraceAddrs] : n \in 0 .. MaxTraces} : IsSortedList(s)}

UndecodableSets == {{}, {2}, {2, 5}}

\* ------------------------------------------------------- cache file names
HexDigits == <<"0", "1", "2", "3", "4", "5", "6", "7", "8", "9",
               "a", "b", "c", "d", "e", "f">>

IsHexDigit(c) == \E i \in 1 .. 16 : HexDigits[i] = c

DigitVal(c) == (CHOOSE i \in 1 .. 16 : HexDigits[i] = c) - 1

RECURSIVE Hex(_)
\* ss << std::hex << n
Hex(n) ==
  IF n < 16 THEN <<HexDigits[n + 1]>>
            ELSE Append(Hex(n \div 16), HexDigits[(n % 16) + 1])

\* ss << "0x" << std::hex << start << "-0x" << std::hex << end (the file's
\* name inside <workspace>/prelift_traces)
FileName(start, end) ==
  <<"0", "x">> \o Hex(start) \o <<"-", "0", "x">> \o Hex(end)

\* name.find("-"): the first position of c, Len + 1 when there is none
Find(s, c) ==
  IF \E i \in 1 .. Len(s) : s[i] = c
  THEN CHOOSE i \in 1 .. Len(s) : s[i] = c /\ \A j \in 1 .. (i - 1) : s[j] # c
  ELSE Len(s) + 1

RECURSIVE HexVal(_, _)
HexVal(s, acc) ==
  IF s = <<>> \/ ~IsHexDigit(Head(s)) THEN acc
  ELSE HexVal(Tail(s), acc * 16 + DigitVal(Head(s)))

\* addr_stream >> std::hex >> map_label: an optional 0x, then hex digits
ParseHex(s) ==
  IF Len(s) >= 2 /\ s[1] = "0" /\ s[2] = "x"
  THEN HexVal(SubSeq(s, 3, Len(s)), 0)
  ELSE HexVal(s, 0)

\* name.substr(0, name.find("-")) read as a hexadecimal number
MapLabel(name) == ParseHex(SubSeq(name, 1, Find(name, "-") - 1))

Dot == <<".">>

DotDot == <<".", ".">>

\* ------------------------------------------------ decodeAndLiftMappings
\* AddressSpace::IsSameMappedRange: both addresses lie in one mapped region
IsSameMappedRange(a, b) ==
  /\ IsMapped(a) /\ IsMapped(b)
  /\ \A c \in Addr :
       ((a <= c /\ c <= b) \/ (b <= c /\ c <= a))
         => (IsMapped(c) /\ maps[c].name = maps[a].name)

RECURSIVE Batches_no_flush(_, _, _, _)
\* the loop without the flush of the last batch after it
Batches_no_flush(list, prev_base, trace_batch, out) ==
  IF list = <<>>
  THEN out
  ELSE IF ~IsSameMappedRange(Head(list), prev_base)
       THEN Batches_no_flush(Tail(list), Head(list), <<Head(list)>>,
                             IF trace_batch # <<>> THEN Append(out, trace_batch)
                                                   ELSE out)
       ELSE Batches_no_flush(Tail(list), prev_base,
                             Append(trace_batch, Head(list)), out)

RECURSIVE Batches(_, _, _, _)
\* the loop over the trace list: a batch ends where the next address is not
\* in the mapped range of prev_base
Batches(list, prev_base, trace_batch, out) ==
  IF list = <<>>
  THEN IF trace_batch # <<>> THEN Append(out, trace_batch) ELSE out
  ELSE IF ~IsSameMappedRange(Head(list), prev_base)
       THEN Batches(Tail(list), Head(list), <<Head(list)>>,
                    IF trace_batch # <<>> THEN Append(out, trace_batch) ELSE out)
       ELSE Batches(Tail(list), prev_base, Append(trace_batch, Head(list)), out)

\* new Worker(new llvm::LLVMContext()) with worker->traces = trace_batch;
\* assigned keeps the batch as it was handed over
NewWorker(batch) ==
  [traces |-> batch, assigned |-> batch, start |-> 0, end |-> 0,
   marked |-> {}, pc |-> "idle"]

LiftFrame ==
  UNCHANGED <<maps, bytes, objects, symbolics, symStore, local, lastOp, alive,
              steps, fileVars, allocVars, markVars>>

\* a missing or unreadable trace list answered by one worker for the first
\* trace address, the fall-back the error message speaks of
decodeAndLiftMappings_fallback ==
  /\ main.pc = "decode"
  /\ workers' =
       IF trace_list.exists /\ trace_list.opens
       THEN LET b == Batches(trace_list.addrs, 0, <<>>, <<>>)
            IN [i \in 1 .. Len(b) |-> NewWorker(b[i])]
       ELSE <<NewWorker(<<1>>)>>
  /\ main' = [main EXCEPT !.pc = "spawn", !.k = 1]
  /\ UNCHANGED <<trace_list, undecodable, dir, dir_order, scan1, aot_traces>>
  /\ LiftFrame

\* the batches of the trace list file, none when the file is missing or
\* cannot be opened
decodeAndLiftMappings ==
  /\ main.pc = "decode"
  /\ workers' =
       IF trace_list.exists /\ trace_list.opens
       THEN LET b == Batches(trace_list.addrs, 0, <<>>, <<>>)
            IN [i \in 1 .. Len(b) |-> NewWorker(b[i])]
       ELSE <<>>
  /\ main' = [main EXCEPT !.pc = "spawn", !.k = 1]
  /\ UNCHANGED <<trace_list, undecodable, dir, dir_order, scan1, aot_traces>>
  /\ LiftFrame

\* worker->thread = std::thread(&LiftMapping, worker.get(), this)
thread_start ==
  /\ main.pc = "spawn"
  /\ IF main.k <= Len(workers)
     THEN /\ workers' = [workers EXCEPT ![main.k].pc = "begin"]
          /\ main' = [main EXCEPT !.k = main.k + 1]
     ELSE /\ main' = [main EXCEPT !.pc = "join", !.k = 1]
          /\ UNCHANGED workers
  /\ UNCHANGED <<trace_list, undecodable, dir, dir_order, scan1, aot_traces>>
  /\ LiftFrame

\* a join that only waits for the first worker
join_returns_first(k) == workers[1].pc = "done"

\* worker->thread.join() returns once the thread of worker k has ended
join_returns(k) == workers[k].pc = "done"

thread_join ==
  /\ main.pc = "join"
  /\ IF main.k <= Len(workers)
     THEN /\ join_returns(main.k)
          /\ main' = [main EXCEPT !.k = main.k + 1]
     ELSE main' = [main EXCEPT !.pc = "opendir", !.k = 1]
  /\ UNCHANGED <<trace_list, undecodable, workers, dir, dir_order, scan1,
                 aot_traces>>
  /\ LiftFrame

\* ------------------------------------------------------------ LiftMapping
\* auto start = traces.front(); auto end = traces.back();
LiftMapping_begin(i) ==
  /\ workers[i].pc = "begin"
  /\ workers' = [workers EXCEPT ![i].pc = "lift",
                                ![i].start = Head(workers[i].traces),
                                ![i].end = workers[i].traces[Len(workers[i].traces)]]
  /\ UNCHANGED <<trace_list, undecodable, main, dir, dir_order, scan1, aot_traces>>
  /\ LiftFrame

\* a lifter whose callback records the function under the batch's start
lift_marked_at_start(w, trace) ==
  IF trace \in undecodable THEN w.marked ELSE w.marked \cup {w.start}

\* mapping_lifter.Lift(trace, callback): new_marked_traces[trace_addr] = func
\* when the trace is translated, nothing when it is not
lift_marked(w, trace) ==
  IF trace \in undecodable THEN w.marked ELSE w.marked \cup {trace}

\* one round of while (!traces.empty()): Lift(traces.back()), pop_back()
LiftMapping_lift(i) ==
  /\ workers[i].pc = "lift"
  /\ workers[i].traces # <<>>
  /\ LET w == workers[i]
         n == Len(w.traces)
     IN workers' = [workers EXCEPT ![i].marked = lift_marked(w, w.traces[n]),
                                   ![i].traces = SubSeq(w.traces, 1, n - 1)]
  /\ UNCHANGED <<trace_list, undecodable, main, dir, dir_order, scan1, aot_traces>>
  /\ LiftFrame

\* one file name for every worker
store_name_shared(w) == FileName(0, 0)

\* a file name with the two addresses the other way round
store_name_swapped(w) == FileName(w.end, w.start)

\* the name of the worker's cache file
store_name(w) == FileName(w.start, w.end)

InsertAt(s, p, x) == SubSeq(s, 1, p - 1) \o <<x>> \o SubSeq(s, p, Len(s))

\* OptimizeModule and StoreModuleToFile: the module holds the functions of
\* new_marked_traces; a new file takes some place in the directory's order
LiftMapping_store(i) ==
  /\ workers[i].pc = "lift"
  /\ workers[i].traces = <<>>
  /\ LET w == workers[i]
         name == store_name(w)
     IN /\ dir' = [n \in DOMAIN dir \cup {name} |->
                     IF n = name THEN w.marked ELSE dir[n]]
        /\ IF name \in DOMAIN dir
           THEN UNCHANGED dir_order
           ELSE \E p \in 3 .. (Len(dir_order) + 1) :
                  dir_order' = InsertAt(dir_order, p, name)
  /\ workers' = [workers EXCEPT ![i].pc = "done"]
  /\ UNCHANGED <<trace_list, undecodable, main, scan1, aot_traces>>
  /\ LiftFrame

\* ------------------------------------------------------------ rehydration
\* auto dir = opendir(path.c_str())
opendir ==
  /\ main.pc = "opendir"
  /\ main' = [main EXCEPT !.pc = "readdir", !.k = 1]
  /\ UNCHANGED <<trace_list, undecodable, workers, dir, dir_order, scan1,
                 aot_traces>>
  /\ LiftFrame

\* one round of while (auto ent = readdir(dir)): "." and ".." are skipped,
\* every other file is loaded and registered under its region's name
rehydrate ==
  /\ main.pc = "readdir"
  /\ main.k <= Len(dir_order)
  /\ LET name == dir_order[main.k]
         map_label == MapLabel(name)
     IN aot_traces' =
          IF name = Dot \/ name = DotDot
          THEN aot_traces
          ELSE aot_register(RangeName(map_label),
                            [label |-> map_label, traces |-> dir[name]])
  /\ main' = [main EXCEPT !.k = main.k + 1]
  /\ UNCHANGED <<trace_list, undecodable, workers, dir, dir_order, scan1>>
  /\ LiftFrame

\* readdir returns null: closedir(dir)
closedir ==
  /\ main.pc = "readdir"
  /\ main.k > Len(dir_order)
  /\ main' = [main EXCEPT !.pc = "done", !.scans = main.scans + 1]
  /\ scan1' = IF main.scans = 0 THEN aot_traces ELSE scan1
  /\ UNCHANGED <<trace_list, undecodable, workers, dir, dir_order, aot_traces>>
  /\ LiftFrame

\* the scan of the cache directory run once more
rescan ==
  /\ main.pc = "done"
  /\ main.scans < MaxScans
  /\ main' = [main EXCEPT !.pc = "opendir"]
  /\ UNCHANGED <<trace_list, undecodable, workers, dir, dir_order, scan1,
                 aot_traces>>
  /\ LiftFrame

\* preLift is entered with the snapshot's memory loaded, a trace list that
\* may be missing, and a prelift_traces directory just created
InitLift ==
  /\ maps = LiftLayout
  /\ bytes = [a \in Addr |-> 0]
  /\ objects = EmptyBag
  /\ symbolics = <<>>
  /\ symStore = <<>>
  /\ aot_traces = [n \in {} |-> NoModule]
  /\ local = Bound(Unbound, 0)
  /\ lastOp = NoOp
  /\ alive = TRUE
  /\ steps = 0
  /\ trace_list \in
       {[exists |-> FALSE, opens |-> FALSE, addrs |-> <<>>],
        [exists |-> TRUE, opens |-> FALSE, addrs |-> <<>>]}
         \cup {[exists |-> TRUE, opens |-> TRUE, addrs |-> s] : s \in TraceLists}
  /\ undecodable \in UndecodableSets
  /\ workers = <<>>
  /\ main = [pc |-> "decode", k |-> 0, scans |-> 0]
  /\ dir = [n \in {Dot, DotDot} |-> {}]
  /\ dir_order = <<Dot, DotDot>>
  /\ scan1 = [n \in {} |-> NoModule]
  /\ FileIdle
  /\ AllocIdle
  /\ MarkIdle

NextLift ==
  \/ decodeAndLiftMappings
  \/ thread_start
  \/ thread_join
  \/ \E i \in 1 .. Len(workers) : LiftMapping_begin(i)
  \/ \E i \in 1 .. Len(workers) : LiftMapping_lift(i)
  \/ \E i \in 1 .. Len(workers) : LiftMapping_store(i)
  \/ opendir
  \/ rehydrate
  \/ closedir
  \/ rescan

SpecLift == InitLift /\ [][NextLift]_vars
\* ============================================================ file intercepts
\* ------------------------------------------------------------ input domains
EBADF == 9
EACCES == 13
ENOENT == 2
EFAULT == 14

\* struct stat as the host fills it: st_dev, st_ino, st_mode, st_nlink,
\* st_uid, st_gid, st_rdev, st_size, st_blksize, st_blocks
StatA == <<1, 2, 3, 4, 5, 6, 7, 8, 9, 10>>

StatB == <<11, 12, 13, 14, 15, 16, 17, 18, 19, 20>>

StatResults == {StatA, StatB}

\* struct dirent as the host returns it
DirentA ==
  [d_ino |-> <<7, 0, 0, 0, 1, 0, 0, 0>>, d_off |-> <<2, 0, 0, 0, 0, 0, 0, 0>>,
   d_reclen |-> <<24, 0>>, d_type |-> <<4>>, d_name |-> "a"]

DirentB ==
  [d_ino |-> <<9, 0, 0, 0, 0, 0, 0, 0>>, d_off |-> <<3, 0, 0, 0, 0, 0, 0, 0>>,
   d_reclen |-> <<32, 0>>, d_type |-> <<8>>, d_name |-> "b"]

Dirents == {DirentA, DirentB}

\* dirent_entry is a member no constructor initialises
DirentGarbage ==
  [d_ino |-> <<170, 170, 170, 170, 170, 170, 170, 170>>,
   d_off |-> <<170, 170, 170, 170, 170, 170, 170, 170>>,
   d_reclen |-> <<170, 170>>, d_type |-> <<170>>, d_name |-> "?"]

Fds == {3}
HostErrnos == {EBADF, EACCES}
FstatIndexes == 0 .. 10
DirentIndexes == 0 .. 4
Garbage == {0, 77}

\* the address of dirent_entry.d_name in the host process
NameBuf == 200

\* ---------------------------------------------------------------- helpers
\* ConstantExpr::create(v, w) of a 64-bit v given as bytes
create(v, w) == Const(Truncate(v, w), w)

\* a small number as a uint64_t
U64(n) == [i \in 1 .. 8 |-> IF i = 1 THEN n ELSE 0]

\* the int -1 converted to uint64_t
MinusOne == AllOnes(64)

FileFrame ==
  UNCHANGED <<maps, bytes, objects, symbolics, symStore, aot_traces, steps,
              liftVars, allocVars, markVars>>

FileOp(o, arg, ok) == Op(o, 0, arg, 0, Unbound, ok)

\* ------------------------------------------------------------------- open
\* an open that leaves the error code the host set
open_errno_host(open_status, host_errno) ==
  IF open_status = -1 THEN host_errno ELSE 0

\* errno = ENOENT when openat failed, errno = 0 otherwise
open_errno(open_status, host_errno) == IF open_status = -1 THEN ENOENT ELSE 0

\* handle_openat64: open_status is the host's file descriptor or -1
handle_openat64(open_status, host_errno) ==
  /\ alive
  /\ local' = IF open_status = -1 THEN Bound(create(MinusOne, 32), 1)
                                  ELSE Bound(create(U64(open_status), 64), 1)
  /\ errno' = open_errno(open_status, host_errno)
  /\ lastOp' = FileOp("openat", open_status, open_status # -1)
  /\ UNCHANGED <<fstat_vector, dirent_entry, hostLast, alive>>
  /\ FileFrame

\* ------------------------------------------------------------ fstat, stat
\* fstat_vector.clear() and the ten push_back of set_up_fstat_struct
set_up_fstat_struct(info) == [i \in 1 .. 10 |-> info[i]]

\* a stat that leaves the error code the host set
stat_errno_host(stat_ret, host_errno) == IF stat_ret = -1 THEN host_errno ELSE 0

\* errno = EFAULT when the host call failed, errno = 0 otherwise
stat_errno(stat_ret, host_errno) == IF stat_ret = -1 THEN EFAULT ELSE 0

stat_bind(stat_ret) ==
  IF stat_ret = -1 THEN Bound(create(MinusOne, 32), 1)
                   ELSE Bound(create(U64(0), 64), 1)

\* a cache filled before stat_ret is looked at
fstat_cache_unguarded(stat_ret, info) == set_up_fstat_struct(info)

\* if (stat_ret == -1) ... else set_up_fstat_struct(stat)
fstat_cache(stat_ret, info) ==
  IF stat_ret = -1 THEN fstat_vector ELSE set_up_fstat_struct(info)

\* handle__fstat64: info is what the host wrote to the caller's struct stat
handle__fstat64(fd, stat_ret, info, host_errno) ==
  /\ alive
  /\ fstat_vector' = fstat_cache(stat_ret, info)
  /\ local' = stat_bind(stat_ret)
  /\ errno' = stat_errno(stat_ret, host_errno)
  /\ hostLast' = IF stat_ret = -1 THEN hostLast ELSE [hostLast EXCEPT !.stat = info]
  /\ lastOp' = FileOp("fstat", fd, stat_ret # -1)
  /\ UNCHANGED <<dirent_entry, alive>>
  /\ FileFrame

\* handle__stat64: the result is bound, the cache is not touched
handle__stat64(stat_ret, info, host_errno) ==
  /\ alive
  /\ local' = stat_bind(stat_ret)
  /\ errno' = stat_errno(stat_ret, host_errno)
  /\ hostLast' = IF stat_ret = -1 THEN hostLast ELSE [hostLast EXCEPT !.stat = info]
  /\ lastOp' = FileOp("stat", 0, stat_ret # -1)
  /\ UNCHANGED <<fstat_vector, dirent_entry, alive>>
  /\ FileFrame

\* handle_get_fstat_index: fstat_vector[index_uint] without a bounds check.
\* A vector never filled has no storage (a load near address 0 ends the
\* process); past the end of a filled one the load returns what the heap holds
handle_get_fstat_index(index) ==
  /\ alive
  /\ lastOp' = FileOp("get_fstat_index", index, index < Len(fstat_vector))
  /\ IF index < Len(fstat_vector)
     THEN /\ local' = Bound(create(U64(fstat_vector[index + 1]), 64), 1)
          /\ UNCHANGED alive
     ELSE IF fstat_vector = <<>>
          THEN /\ alive' = FALSE
               /\ local' = Bound(Unbound, 0)
          ELSE /\ \E g \in Garbage : local' = Bound(create(U64(g), 64), 1)
               /\ UNCHANGED alive
  /\ UNCHANGED <<fstat_vector, dirent_entry, errno, hostLast>>
  /\ FileFrame

\* ---------------------------------------------------------------- readdir
\* set_up_dirent_struct: the four fields and strcpy of the name
set_up_dirent_struct(info) ==
  [d_ino |-> info.d_ino, d_off |-> info.d_off, d_reclen |-> info.d_reclen,
   d_type |-> info.d_type, d_name |-> info.d_name]

\* handle__my_readdir: found is FALSE at the end of the directory
handle__my_readdir(found, info) ==
  /\ alive
  /\ dirent_entry' = IF found THEN set_up_dirent_struct(info) ELSE dirent_entry
  /\ local' = Bound(createBool(found), 1)
  /\ hostLast' = IF found THEN [hostLast EXCEPT !.dirent = info] ELSE hostLast
  /\ lastOp' = FileOp("readdir", 0, found)
  /\ UNCHANGED <<fstat_vector, errno, alive>>
  /\ FileFrame

\* the cases of the switch in source order
dirent_cases == <<dirent_entry.d_ino, dirent_entry.d_off, dirent_entry.d_reclen,
                  dirent_entry.d_type>>

\* a switch whose cases each end in a break
dirent_field_break(index) == Truncate(dirent_cases[index + 1], 32)

\* unsigned field after the switch: no case ends in a break, so control runs
\* from case index_uint through every later case and the last assignment stays
dirent_field(index) ==
  LET assigned == [k \in (index + 1) .. 4 |-> Truncate(dirent_cases[k], 32)]
  IN assigned[4]

\* handle_get_dirent_index: an index without a case leaves field unset
handle_get_dirent_index(index) ==
  /\ alive
  /\ IF index <= 3
     THEN local' = Bound(create(Truncate(dirent_field(index), 64), 64), 1)
     ELSE \E g \in Garbage : local' = Bound(create(U64(g), 64), 1)
  /\ lastOp' = FileOp("get_dirent_index", index, index <= 3)
  /\ UNCHANGED <<fstat_vector, dirent_entry, errno, hostLast, alive>>
  /\ FileFrame

\* handle_get_dirent_name: the address of the cached name
handle_get_dirent_name ==
  /\ alive
  /\ local' = Bound(createPointer(NameBuf), 1)
  /\ lastOp' = FileOp("get_dirent_name", 0, TRUE)
  /\ UNCHANGED <<fstat_vector, dirent_entry, errno, hostLast, alive>>
  /\ FileFrame

\* the handler object right after construction; no host call was seen
InitFile ==
  /\ BridgeInit
  /\ LiftIdle
  /\ AllocIdle
  /\ MarkIdle
  /\ fstat_vector = <<>>
  /\ dirent_entry = DirentGarbage
  /\ errno = 0
  /\ hostLast = [stat |-> <<>>, dirent |-> NoDirent]

NextFile ==
  \/ \E fd \in Fds : handle_openat64(fd, 0)
  \/ \E e \in HostErrnos : handle_openat64(-1, e)
  \/ \E fd \in Fds, info \in StatResults : handle__fstat64(fd, 0, info, 0)
  \/ \E fd \in Fds, e \in HostErrnos : handle__fstat64(fd, -1, StatA, e)
  \/ \E info \in StatResults : handle__stat64(0, info, 0)
  \/ \E e \in HostErrnos : handle__stat64(-1, StatA, e)
  \/ \E i \in FstatIndexes : handle_get_fstat_index(i)
  \/ \E info \in Dirents : handle__my_readdir(TRUE, info)
  \/ handle__my_readdir(FALSE, DirentA)
  \/ \E i \in DirentIndexes : handle_get_dirent_index(i)
  \/ handle_get_dirent_name

SpecFile == InitFile /\ [][NextFile]_vars

\* ======================================================= allocator intercepts
\* addr_t values are 64-bit, eight little-endian bytes
\* ~0ULL - k
Sentinel(k) == [i \in 1 .. 8 |-> IF i = 1 THEN 255 - k ELSE 255]

kBadAddr == Sentinel(0)

kReallocInternalPtr == Sentinel(1)

kReallocTooBig == Sentinel(2)

kReallocInvalidPtr == Sentinel(3)

kReallocFreedPtr == Sentinel(4)

kMallocTooBig == Sentinel(1)

Null == U64(0)

\* ------------------------------------------------------------ input domains
AllocPtrs == {U64(64), U64(128)}

AllocSizes == {U64(0), U64(16), [i \in 1 .. 8 |-> IF i = 8 THEN 128 ELSE 0]}

\* the counts of a calloc: the sizes, and 2^63 + 1, whose product with 16
\* is 16 modulo 2^64
CallocNums ==
  AllocSizes \cup {[i \in 1 .. 8 |-> IF i = 8 THEN 128 ELSE IF i = 1 THEN 1 ELSE 0]}

\* what malloc_intercept and calloc_intercept answer
MallocAnswers == AllocPtrs \cup {Null, kBadAddr, kMallocTooBig}

\* what realloc_intercept answers
ReallocAnswers ==
  AllocPtrs \cup {Null, kBadAddr, kReallocInternalPtr, kReallocTooBig,
                  kReallocInvalidPtr, kReallocFreedPtr}

\* ------------------------------------------------------------------ helpers
RECURSIVE SumProducts(_, _, _, _)
\* the sum of a[i] * b[k + 1 - i] for i in from .. k
SumProducts(a, b, k, from) ==
  IF from > k THEN 0
  ELSE a[from] * b[k + 1 - from] + SumProducts(a, b, k, from + 1)

RECURSIVE MulDigits(_, _, _, _)
\* the low eight bytes of a * b, byte k onwards, carry coming in
MulDigits(a, b, k, carry) ==
  IF k > 8 THEN <<>>
  ELSE LET sum == carry + SumProducts(a, b, k, 1)
       IN <<sum % 256>> \o MulDigits(a, b, k + 1, sum \div 256)

\* num * size in addr_t arithmetic (modulo 2^64)
Mul64(a, b) == MulDigits(a, b, 1, 0)

\* intercept.SetReturn(memory, state, v): v is the call's return value
SetReturn(memory, v) == [ret |-> v, handle |-> memory, aborted |-> FALSE]

\* return memory: no return value is set, the host's function runs
FallBack == [ret |-> <<>>, handle |-> 1, aborted |-> FALSE]

\* klee_abort(): the process ends, no later intercept runs
Abort == [ret |-> <<>>, handle |-> 0, aborted |-> TRUE]

Call(fn, ok, ptr, num, size, consulted, request, answer, out) ==
  [fn |-> fn, args_ok |-> ok, ptr |-> ptr, num |-> num, size |-> size,
   consulted |-> consulted, request |-> request, answer |-> answer,
   out |-> out]

AllocFrame == UNCHANGED <<bridgeVars, liftVars, fileVars, markVars>>

\* -------------------------------------------------------- Intercept_malloc
\* the zero-size test left out
malloc_outcome_no_zero_test(ok, alloc_size, ptr) ==
  IF ~ok THEN SetReturn(1, Null)
  ELSE IF ptr = kBadAddr THEN FallBack
  ELSE IF ptr = kMallocTooBig THEN FallBack
  ELSE SetReturn(1, ptr)

malloc_outcome(ok, alloc_size, ptr) ==
  IF ~ok THEN SetReturn(1, Null)
  ELSE IF alloc_size = Null THEN SetReturn(1, Null)
  ELSE IF ptr = kBadAddr THEN FallBack
  ELSE IF ptr = kMallocTooBig THEN FallBack
  ELSE SetReturn(1, ptr)

Intercept_malloc(ok, alloc_size, answer) ==
  /\ ~intercept.out.aborted
  /\ AllocFrame
  /\ LET c == ok /\ alloc_size # Null
     IN intercept' = Call("malloc", ok, Null, Null, alloc_size,
                          IF c THEN "malloc_intercept" ELSE "none",
                          IF c THEN alloc_size ELSE <<>>,
                          IF c THEN answer ELSE <<>>,
                          malloc_outcome(ok, alloc_size, answer))

\* ---------------------------------------------------------- Intercept_free
\* freed: what free_intercept answers
free_outcome(ok, freed) ==
  IF ~ok THEN SetReturn(1, Null)
  ELSE IF ~freed THEN FallBack
  ELSE SetReturn(1, Null)

Intercept_free(ok, address, freed) ==
  /\ ~intercept.out.aborted
  /\ AllocFrame
  /\ intercept' = Call("free", ok, address, Null, Null,
                       IF ok THEN "free_intercept" ELSE "none",
                       IF ok THEN address ELSE <<>>,
                       IF ok THEN <<freed>> ELSE <<>>,
                       free_outcome(ok, freed))

\* -------------------------------------------------------- Intercept_calloc
Intercept_calloc(ok, num, size, answer) ==
  /\ ~intercept.out.aborted
  /\ AllocFrame
  /\ LET alloc_size == Mul64(num, size)
         c == ok /\ alloc_size # Null
     IN intercept' = Call("calloc", ok, Null, num, size,
                          IF c THEN "calloc_intercept" ELSE "none",
                          IF c THEN alloc_size ELSE <<>>,
                          IF c THEN answer ELSE <<>>,
                          IF ~ok THEN SetReturn(1, Null)
                          ELSE IF alloc_size = Null THEN SetReturn(1, Null)
                          ELSE IF answer = kBadAddr THEN FallBack
                          ELSE IF answer = kMallocTooBig THEN FallBack
                          ELSE SetReturn(1, answer))

\* ------------------------------------------------------- Intercept_realloc
\* the already-freed sentinel taken for an address
realloc_outcome_freed_returned(ok, new_ptr) ==
  IF ~ok THEN SetReturn(1, Null)
  ELSE IF new_ptr = kBadAddr THEN FallBack
  ELSE IF kReallocInternalPtr = new_ptr THEN Abort
  ELSE IF kReallocTooBig = new_ptr THEN Abort
  ELSE IF kReallocInvalidPtr = new_ptr THEN Abort
  ELSE SetReturn(1, new_ptr)

realloc_outcome(ok, new_ptr) ==
  IF ~ok THEN SetReturn(1, Null)
  ELSE IF new_ptr = kBadAddr THEN FallBack
  ELSE IF kReallocInternalPtr = new_ptr THEN Abort
  ELSE IF kReallocTooBig = new_ptr THEN Abort
  ELSE IF kReallocInvalidPtr = new_ptr THEN Abort
  ELSE IF kReallocFreedPtr = new_ptr THEN Abort
  ELSE SetReturn(1, new_ptr)

Intercept_realloc(ok, ptr, alloc_size, answer) ==
  /\ ~intercept.out.aborted
  /\ AllocFrame
  /\ intercept' = Call("realloc", ok, ptr, Null, alloc_size,
                       IF ~ok THEN "none"
                       ELSE IF ptr = Null THEN "malloc_intercept"
                       ELSE "realloc_intercept",
                       IF ok THEN alloc_size ELSE <<>>,
                       IF ok THEN answer ELSE <<>>,
                       realloc_outcome(ok, answer))

\* ------------------------------------------------------ Intercept_memalign
Intercept_memalign(ok, size, answer) ==
  /\ ~intercept.out.aborted
  /\ AllocFrame
  /\ intercept' = Call("memalign", ok, Null, Null, size,
                       IF ok THEN "malloc_intercept" ELSE "none",
                       IF ok THEN size ELSE <<>>,
                       IF ok THEN answer ELSE <<>>,
                       IF ~ok THEN SetReturn(0, Null)
                       ELSE IF answer = kBadAddr THEN FallBack
                       ELSE SetReturn(1, answer))

\* -------------------------------------------- Intercept_malloc_usable_size
Intercept_malloc_usable_size(ok, ptr, size) ==
  /\ ~intercept.out.aborted
  /\ AllocFrame
  /\ intercept' = Call("malloc_usable_size", ok, ptr, Null, Null,
                       IF ok THEN "malloc_size" ELSE "none",
                       IF ok THEN ptr ELSE <<>>,
                       IF ok THEN size ELSE <<>>,
                       IF ~ok THEN SetReturn(1, Null)
                       ELSE IF size = Null THEN FallBack
                       ELSE SetReturn(1, size))

\* ------------------------------------------------------------ specification
InitAlloc == BridgeInit /\ LiftIdle /\ FileIdle /\ AllocIdle /\ MarkIdle

NextAlloc ==
  \/ \E ok \in BOOLEAN, size \in AllocSizes, answer \in MallocAnswers :
       Intercept_malloc(ok, size, answer)
  \/ \E ok \in BOOLEAN, address \in AllocPtrs \cup {Null}, freed \in BOOLEAN :
       Intercept_free(ok, address, freed)
  \/ \E ok \in BOOLEAN, num \in CallocNums, size \in AllocSizes,
        answer \in MallocAnswers :
       Intercept_calloc(ok, num, size, answer)
  \/ \E ok \in BOOLEAN, ptr \in AllocPtrs \cup {Null}, size \in AllocSizes :
       \E answer \in IF ptr = Null THEN MallocAnswers ELSE ReallocAnswers :
         Intercept_realloc(ok, ptr, size, answer)
  \/ \E ok \in BOOLEAN, size \in AllocSizes, answer \in MallocAnswers :
       Intercept_memalign(ok, size, answer)
  \/ \E ok \in BOOLEAN, ptr \in AllocPtrs, size \in AllocSizes :
       Intercept_malloc_usable_size(ok, ptr, size)

SpecAlloc == InitAlloc /\ [][NextAlloc]_vars

\* ======================================================= trace-marking passes
\* RecursiveDescentPass and LinearSweepPass over one executable map
\* [0, LimitAddress). The decoder (remill) is the environment: code gives, for
\* every address of the map, what DecodeInstruction makes of the bytes there.
\* Every instruction is one byte long: next_pc = pc + 1.
MaxCode == 3

\* arch->MaxInstructionSize(): the bytes a decode attempt reads
MaxInstructionSize == 1

LimitAddress == Len(code.inst)

\* map->Contains(a), and what TryReadExecutableByte answers for a
Contains(a) == 0 <= a /\ a < LimitAddress

Targets == {1, MaxCode}

Inst(c, t) == [category |-> c, branch_taken_pc |-> t]

\* what the bytes at one address decode to, as far as the descent tells
\* instructions apart; "bad" does not decode
DescentInsts ==
  {Inst(c, t) : c \in {"call", "cond", "jump"}, t \in Targets}
    \cup {Inst(c, 0) : c \in {"indirect", "ret", "other", "bad"}}

\* saved_entry_point_address: in the map, at its limit, beyond it
EntryPoints == {0, MaxCode, MaxCode + 1}

MarkFrame == UNCHANGED <<bridgeVars, liftVars, fileVars, allocVars>>

\* ----------------------------------------------------- RecursiveDescentPass
\* the choice of function_start
RecursiveDescentPass_enter ==
  /\ pass.pc = "enter"
  /\ LET e == code.saved_entry_point_address
     IN IF e > LimitAddress
        THEN /\ pass' = [pc |-> "returned"]
             /\ UNCHANGED <<q, decoder_work_list, new_lifted_traces>>
        ELSE IF Contains(e)
        THEN /\ decoder_work_list' = Append(decoder_work_list, <<e, FALSE>>)
             /\ new_lifted_traces' = new_lifted_traces \cup {e}
             /\ q' = <<e>>
             /\ pass' = [pc |-> "descend"]
        ELSE /\ q' = <<0>>
             /\ pass' = [pc |-> "descend"]
             /\ UNCHANGED <<decoder_work_list, new_lifted_traces>>
  /\ UNCHANGED <<code, visited>>
  /\ MarkFrame

\* the MaxInstructionSize bytes from a on are all readable
ReadsInst(a) == \A i \in 0 .. (MaxInstructionSize - 1) : Contains(a + i)

\* the addresses of s that are not in the set v, in order
Unvisited(s, v) == SelectSeq(s, LAMBDA a : a \notin v)

\* a direct jump that enqueues its target whether visited or not
descent_case_jump_unchecked(pc, inst, v) ==
  LET taken == inst.branch_taken_pc
      next_pc == pc + 1
  IN CASE inst.category = "call" ->
            [q |-> IF taken \notin v THEN <<taken, next_pc>> ELSE <<>>,
             work |-> Unvisited(<<taken>>, v),
             marks |-> {taken}]
       [] inst.category = "cond" ->
            [q |-> Unvisited(<<taken, next_pc>>, v),
             work |-> Unvisited(<<taken, next_pc>>, v),
             marks |-> {a \in {taken, next_pc} : a \notin v}]
       [] inst.category = "jump" ->
            [q |-> <<taken>>,
             work |-> Unvisited(<<taken>>, v),
             marks |-> {a \in {taken} : a \notin v}]
       [] inst.category = "indirect" ->
            [q |-> Unvisited(<<next_pc>>, v),
             work |-> Unvisited(<<pc>>, v),
             marks |-> {}]
       [] inst.category = "ret" ->
            [q |-> <<>>, work |-> <<>>, marks |-> {}]
       [] OTHER ->
            [q |-> Unvisited(<<next_pc>>, v), work |-> <<>>, marks |-> {}]

\* what one decoded instruction adds: to q, to decoder_work_list, to the
\* trace map; v is visited with the instruction's own address in it
descent_case(pc, inst, v) ==
  LET taken == inst.branch_taken_pc
      next_pc == pc + 1
  IN CASE inst.category = "call" ->
            [q |-> IF taken \notin v THEN <<taken, next_pc>> ELSE <<>>,
             work |-> Unvisited(<<taken>>, v),
             marks |-> {taken}]
       [] inst.category = "cond" ->
            [q |-> Unvisited(<<taken, next_pc>>, v),
             work |-> Unvisited(<<taken, next_pc>>, v),
             marks |-> {a \in {taken, next_pc} : a \notin v}]
       [] inst.category = "jump" ->
            [q |-> Unvisited(<<taken>>, v),
             work |-> Unvisited(<<taken>>, v),
             marks |-> {a \in {taken} : a \notin v}]
       [] inst.category = "indirect" ->
            [q |-> Unvisited(<<next_pc>>, v),
             work |-> Unvisited(<<pc>>, v),
             marks |-> {}]
       [] inst.category = "ret" ->
            [q |-> <<>>, work |-> <<>>, marks |-> {}]
       [] OTHER ->
            [q |-> Unvisited(<<next_pc>>, v), work |-> <<>>, marks |-> {}]

Pairs(s) == [i \in 1 .. Len(s) |-> <<s[i], FALSE>>]

\* one round of while (!q.empty())
RecursiveDescentPass_step ==
  /\ pass.pc = "descend"
  /\ q # <<>>
  /\ LET potential_trace == Head(q)
     IN IF ~ReadsInst(potential_trace)
        THEN /\ pass' = [pc |-> "returned"]
             /\ q' = Tail(q)
             /\ UNCHANGED <<visited, decoder_work_list, new_lifted_traces>>
        ELSE IF code.inst[potential_trace + 1].category = "bad"
        THEN /\ q' = Tail(q)
             /\ UNCHANGED <<pass, visited, decoder_work_list, new_lifted_traces>>
        ELSE LET v == visited \cup {potential_trace}
                 d == descent_case(potential_trace,
                                   code.inst[potential_trace + 1], v)
             IN /\ visited' = v
                /\ q' = Tail(q) \o d.q
                /\ decoder_work_list' = decoder_work_list \o Pairs(d.work)
                /\ new_lifted_traces' = new_lifted_traces \cup d.marks
                /\ UNCHANGED pass
  /\ UNCHANGED code
  /\ MarkFrame

\* q is empty: the pass ends
RecursiveDescentPass_end ==
  /\ pass.pc = "descend"
  /\ q = <<>>
  /\ pass' = [pc |-> "done"]
  /\ UNCHANGED <<code, q, visited, decoder_work_list, new_lifted_traces>>
  /\ MarkFrame

InitDescent ==
  /\ BridgeInit /\ LiftIdle /\ FileIdle /\ AllocIdle
  /\ code \in {[inst |-> i, saved_entry_point_address |-> e] :
                 i \in [1 .. MaxCode -> DescentInsts], e \in EntryPoints}
  /\ pass = [pc |-> "enter"]
  /\ q = <<>>
  /\ visited = {}
  /\ decoder_work_list = <<>>
  /\ new_lifted_traces = {}

NextDescent ==
  \/ RecursiveDescentPass_enter
  \/ RecursiveDescentPass_step
  \/ RecursiveDescentPass_end

SpecDescent == InitDescent /\ [][NextDescent]_vars

\* the pass is one sequential loop that nothing suspends: it keeps taking
\* its next step as long as it has one
FairDescent == SpecDescent /\ WF_vars(NextDescent)

\* --------------------------------------------------------- LinearSweepPass
MaxWork == 3

\* what the bytes at one address decode to, as far as the sweep tells
\* instructions apart; "pad" is a zero byte, an instruction of no special
\* category; "bad" does not decode
SweepInsts ==
  {Inst(c, t) : c \in {"call", "cond", "jump"}, t \in Targets}
    \cup {Inst(c, 0) : c \in {"ret", "nop", "other", "pad", "bad"}}

\* the work lists the sweep is entered with
WorkLists ==
  {<<<<0, FALSE>>>>, <<<<0, TRUE>>>>, <<<<1, FALSE>>, <<0, FALSE>>>>,
   <<<<0, FALSE>>, <<1, TRUE>>>>}

RECURSIVE SkipZeros(_)
\* while (TryReadExecutableByte(byte_addr++, &byte)) if (!byte) ++addr
SkipZeros(a) ==
  IF Contains(a) /\ code.inst[a + 1].category = "pad" THEN SkipZeros(a + 1) ELSE a

\* decoder_work_list.back(), pop_back(), and the skip of a targeted item
LinearSweepPass_pop ==
  /\ pass.pc = "sweep"
  /\ decoder_work_list # <<>>
  /\ LET trace_pair == decoder_work_list[Len(decoder_work_list)]
         addr == IF trace_pair[2] THEN SkipZeros(trace_pair[1]) ELSE trace_pair[1]
     IN pass' = [pc |-> "scan", addr |-> addr, targeted |-> trace_pair[2],
                 inst_addr |-> addr, work_on_trace |-> TRUE,
                 decoded |-> {}, failed_at |-> -1]
  /\ decoder_work_list' = SubSeq(decoder_work_list, 1, Len(decoder_work_list) - 1)
  /\ UNCHANGED <<code, q, visited, new_lifted_traces>>
  /\ MarkFrame

\* a failed decode that hands the next byte to the work list
sweep_case_retry(inst_addr, inst, addr, targeted) ==
  [work_on_trace |-> FALSE, marks |-> {},
   work |-> IF inst.category = "bad" THEN <<<<inst_addr + 1, FALSE>>>> ELSE <<>>,
   inst_addr |-> inst_addr]

\* what one round of the for loop does with the bytes at inst_addr; visited
\* is declared in the loop body and holds inst_addr alone
sweep_case(inst_addr, inst, addr, targeted) ==
  LET taken == inst.branch_taken_pc
      next_pc == inst_addr + 1
      stop(marks, work) ==
        [work_on_trace |-> FALSE, marks |-> marks, work |-> work,
         inst_addr |-> inst_addr]
  IN CASE inst.category = "bad" -> stop({}, <<>>)
       [] inst.category = "jump" ->
            stop({addr}, IF taken # inst_addr THEN <<<<taken, FALSE>>>> ELSE <<>>)
       [] inst.category = "cond" ->
            stop({addr}, (IF taken # inst_addr THEN <<<<taken, FALSE>>>> ELSE <<>>)
                           \o <<<<next_pc, FALSE>>>>)
       [] inst.category = "call" ->
            stop({addr, taken}, <<<<next_pc, FALSE>>>>)
       [] inst.category = "ret" ->
            stop({addr}, <<<<next_pc, TRUE>>>>)
       [] inst.category = "nop" ->
            [work_on_trace |-> targeted, marks |-> {}, work |-> <<>>,
             inst_addr |-> inst_addr]
       [] OTHER ->
            [work_on_trace |-> TRUE, marks |-> {}, work |-> <<>>,
             inst_addr |-> next_pc - 1]

\* one round of for (inst_addr = addr; inst_addr < limit && work_on_trace;
\* ++inst_addr)
LinearSweepPass_scan ==
  /\ pass.pc = "scan"
  /\ pass.inst_addr < LimitAddress /\ pass.work_on_trace
  /\ LET inst == code.inst[pass.inst_addr + 1]
         r == sweep_case(pass.inst_addr, inst, pass.addr, pass.targeted)
     IN /\ Len(decoder_work_list) + Len(r.work) <= MaxWork
        /\ pass' = [pass EXCEPT !.work_on_trace = r.work_on_trace,
                                !.inst_addr = r.inst_addr + 1,
                                !.decoded = @ \cup {pass.inst_addr},
                                !.failed_at = IF inst.category = "bad"
                                              THEN pass.inst_addr ELSE @]
        /\ new_lifted_traces' = new_lifted_traces \cup r.marks
        /\ decoder_work_list' = decoder_work_list \o r.work
  /\ UNCHANGED <<code, q, visited>>
  /\ MarkFrame

\* the for loop is over: if (addr >= map->LimitAddress()) break
LinearSweepPass_next ==
  /\ pass.pc = "scan"
  /\ ~(pass.inst_addr < LimitAddress /\ pass.work_on_trace)
  /\ pass' = [pc |-> IF pass.addr >= LimitAddress THEN "done" ELSE "sweep"]
  /\ UNCHANGED <<code, q, visited, decoder_work_list, new_lifted_traces>>
  /\ MarkFrame

\* decoder_work_list is empty: the pass ends
LinearSweepPass_end ==
  /\ pass.pc = "sweep"
  /\ decoder_work_list = <<>>
  /\ pass' = [pc |-> "done"]
  /\ UNCHANGED <<code, q, visited, decoder_work_list, new_lifted_traces>>
  /\ MarkFrame

InitSweep ==
  /\ BridgeInit /\ LiftIdle /\ FileIdle /\ AllocIdle
  /\ code \in {[inst |-> i, saved_entry_point_address |-> 0] :
                 i \in [1 .. MaxCode -> SweepInsts]}
  /\ pass = [pc |-> "sweep"]
  /\ q = <<>>
  /\ visited = {}
  /\ decoder_work_list \in WorkLists
  /\ new_lifted_traces = {}

NextSweep ==
  \/ LinearSweepPass_pop
  \/ LinearSweepPass_scan
  \/ LinearSweepPass_next
  \/ LinearSweepPass_end

SpecSweep == InitSweep /\ [][NextSweep]_vars

\* the pass is one sequential loop that nothing suspends
FairSweep == SpecSweep /\ WF_vars(NextSweep)
\* ===================================================================== claims
LastWrite == lastOp.op = "write"

LastRead == lastOp.op = "read"

\* every byte of the access is readable and writable
ReadableWritable(a, w) == TryReadOk(a, w) /\ TryWriteOk(a, w)

\* C1 (as claimed): after a Write of a concrete value v of any width at a
\* readable and writable address, a Read of that width at that address
\* returns exactly v, whatever preceded the write.
C1_ConcreteWriteThenRead ==
  (LastWrite /\ isaConstantExpr(lastOp.arg)
     /\ ReadableWritable(lastOp.addr, lastOp.width))
  => (alive /\ remill_read(lastOp.width, lastOp.addr).val = lastOp.arg)

\* C2 (as claimed): after a Write of a non-constant value e of any width, a
\* Read of that width at that address returns e, never a concrete value.
C2_SymbolicWriteThenRead ==
  (LastWrite /\ ~isaConstantExpr(lastOp.arg))
  => (alive /\ remill_read(lastOp.width, lastOp.addr) = Bound(lastOp.arg, 1))

\* C3 (as claimed): a concrete Write returns the address-space handle if and
\* only if the write was performed, the null handle when the target is not
\* writable, and never aborts the execution state.
C3_ConcreteWriteResult ==
  (LastWrite /\ isaConstantExpr(lastOp.arg))
  => /\ alive
     /\ local.nbind >= 1
     /\ (local.val = createPointer(lastOp.h)) <=> lastOp.performed
     /\ ~lastOp.performed => local.val = createPointer(0)

\* C4 (as claimed): a Read of width N at an unmapped or unreadable address
\* returns the all-ones value of width N, binds it, and the state continues.
C4_FailedReadAllOnes ==
  (LastRead /\ ~TryReadOk(lastOp.addr, lastOp.width))
  => (alive /\ local = Bound(Const(AllOnes(lastOp.width), lastOp.width), 1))

\* C4 (amended): a Read of width N at an unmapped or unreadable address that
\* has no symbolic overlay consulted by the handler (width 32 only) returns
\* the all-ones value of width N, bound exactly once, and the state continues.
C4_FailedReadAllOnesNoOverlay ==
  (LastRead /\ ~TryReadOk(lastOp.addr, lastOp.width)
     /\ (lastOp.width = 32 => OverlayAt(lastOp.addr) = {}))
  => (alive /\ local = Bound(Const(AllOnes(lastOp.width), lastOp.width), 1))

\* C4 witness: a failed 32-bit read at an address without overlay, in an
\* address space that has an overlay elsewhere, returned all ones
C4_Witness ==
  /\ LastRead /\ lastOp.width = 32
  /\ ~TryReadOk(lastOp.addr, 32)
  /\ OverlayAt(lastOp.addr) = {} /\ objects # EmptyBag
  /\ local = Bound(Const(AllOnes(32), 32), 1)

\* C5 (as claimed): a Write of a non-constant value is reported as performed:
\* its result is never the null handle of a failed concrete write.
C5_SymbolicWriteReported ==
  (LastWrite /\ ~isaConstantExpr(lastOp.arg) /\ alive)
  => (local.nbind >= 1 /\ local.val # createPointer(0))

\* C6 (as claimed): once a symbolic value has been written to an address (an
\* overlay exists there), every Read at that address is served from the
\* overlay and not from the concrete backing store.
C6_ReadServedFromOverlay ==
  (LastRead /\ OverlayAt(lastOp.addr) # {})
  => (local.nbind >= 1 /\ ~isaConstantExpr(local.val))

\* C7: AddMap, RemoveMap and SetPermissions each return exactly the handle
\* they were given, whether or not the region table changed.
C7_MapOpsReturnHandle ==
  (lastOp.op \in {"allocate", "free", "protect"})
  => (alive /\ local = Bound(createPointer(lastOp.h), 1))

\* C7 witness: a RemoveMap on an address space with nothing mapped (the region
\* table did not change) returned the handle
C7_Witness ==
  /\ lastOp.op = "free"
  /\ \A a \in Addr : ~maps[a].mapped
  /\ local.val = createPointer(lastOp.h)

\* the address the find-hole handler bound
BoundIs(n) == local = Bound(createPointer(n), 1)

\* C8 (as claimed): FindHole returns an address a with [a, a+size) inside
\* [base, limit) and unmapped whenever one exists, a not-found result
\* otherwise, and the not-found value is never the value of a found hole.
C8_FindHole ==
  (lastOp.op = "find_hole")
  => /\ alive
     /\ (\E a \in Addr : IsHole(a, lastOp.addr, lastOp.a2, lastOp.a3))
          => (\E a \in Addr : IsHole(a, lastOp.addr, lastOp.a2, lastOp.a3) /\ BoundIs(a))
     /\ (\E a \in Addr : IsHole(a, lastOp.addr, lastOp.a2, lastOp.a3))
          => ~BoundIs(0)
     /\ ~(\E a \in Addr : IsHole(a, lastOp.addr, lastOp.a2, lastOp.a3))
          => BoundIs(0)

QueryOps == {"can_read", "can_write", "is_mapped"}

\* C9: CanRead, CanWrite and IsMapped leave the region table, permissions,
\* concrete bytes, overlay table and module table as they were.
C9_QueriesChangeNothing ==
  [][lastOp'.op \in QueryOps
       => UNCHANGED <<maps, bytes, objects, symbolics, symStore, aot_traces>>]_vars

\* C9 witness: a query ran on an address space with a mapping, written bytes
\* and an overlay
C9_Witness ==
  /\ lastOp.op \in QueryOps
  /\ objects # EmptyBag
  /\ \E a \in Addr : maps[a].mapped /\ bytes[a] # 0

\* C10: GetLiftedFunction returns the function lifted for pc when pc was
\* lifted into the module registered for the region containing pc, and a null
\* reference, without terminating the state, when pc was never lifted.
C10_GetLiftedFunction ==
  (lastOp.op = "get_lifted")
  => /\ alive
     /\ local.nbind = 1
     /\ (IsMapped(lastOp.addr) /\ maps[lastOp.addr].name \in DOMAIN aot_traces
           /\ lastOp.addr \in aot_traces[maps[lastOp.addr].name].traces)
          => local.val = createPointer(FuncPtr(aot_traces[maps[lastOp.addr].name],
                                               lastOp.addr))
     /\ (\A n \in DOMAIN aot_traces : lastOp.addr \notin aot_traces[n].traces)
          => local.val = createPointer(0)

\* C10 witness: a lookup of a lifted pc returned its function
C10_Witness ==
  /\ lastOp.op = "get_lifted"
  /\ IsMapped(lastOp.addr)
  /\ local.val # createPointer(0)

\* C10 witness of the miss: a lookup in a region with a module, of a pc that
\* was never lifted, returned null
C10_WitnessMiss ==
  /\ lastOp.op = "get_lifted"
  /\ RangeName(lastOp.addr) \in DOMAIN aot_traces
  /\ IsMapped(lastOp.addr)
  /\ local.val = createPointer(0)
C33_ReadBindsOnce ==
  (LastRead /\ alive) => local.nbind = 1

\* C34 (as claimed): a Write of a non-constant value at one address changes
\* the value no Read returns at any other address.
C34_SymbolicWriteFrame ==
  [][\A b \in AccessAddrs, w \in Widths :
       (/\ lastOp'.op = "write" /\ lastOp'.width = 32
        /\ ~isaConstantExpr(lastOp'.arg)
        /\ lastOp'.addr # b)
       => remill_read(w, b)'.val = remill_read(w, b).val]_vars

\* ================================================== claims: PreLifter::preLift
SeqRange(sq) == {sq[i] : i \in 1 .. Len(sq)}

WorkerIds == 1 .. Len(workers)

WorkerDone(i) == workers[i].pc = "done"

\* the cache files, without the directory's own two entries
CacheFiles == DOMAIN dir \ {Dot, DotDot}

\* C11: the scan of the cache directory (from opendir on) starts only when
\* every worker thread has ended and its cache file is in the directory.
C11_JoinBarrier ==
  (main.pc \in {"opendir", "readdir", "done"})
  => \A i \in WorkerIds : WorkerDone(i) /\ store_name(workers[i]) \in CacheFiles

\* C11 witness: the scan is under way after three workers ran
C11_Witness ==
  /\ main.pc = "readdir" /\ main.scans = 0
  /\ Len(workers) = 3
  /\ Cardinality(CacheFiles) = 3

\* the addresses of a batch that the lifter translates
Lifted(batch) == {a \in SeqRange(batch) : a \notin undecodable}

\* C12: the cache file of a worker holds exactly the functions of the
\* addresses of its batch that lift: N of them for a batch of N addresses
\* without failure; a failing address is absent, and the worker has gone
\* through its whole batch and written its file by the time it is joined.
C12_BatchOutput ==
  /\ \A i \in WorkerIds :
       WorkerDone(i)
       => /\ workers[i].traces = <<>>
          /\ store_name(workers[i]) \in CacheFiles
          /\ dir[store_name(workers[i])] = Lifted(workers[i].assigned)
          /\ workers[i].marked = Lifted(workers[i].assigned)
          /\ (SeqRange(workers[i].assigned) \cap undecodable = {})
               => Cardinality(dir[store_name(workers[i])]) = Len(workers[i].assigned)
  /\ (main.pc = "done") => \A i \in WorkerIds : WorkerDone(i)

\* C12 witness: a worker whose batch of two addresses held one that does not
\* lift wrote a file with the one function of the other
C12_Witness ==
  \E i \in WorkerIds :
    /\ WorkerDone(i)
    /\ Len(workers[i].assigned) = 2
    /\ Cardinality(SeqRange(workers[i].assigned) \cap undecodable) = 1
    /\ Cardinality(dir[store_name(workers[i])]) = 1

\* the positions in readdir's order of the cache files of region name n
FilesOf(n) ==
  {k \in 1 .. Len(dir_order) :
     dir_order[k] \in CacheFiles /\ RangeName(MapLabel(dir_order[k])) = n}

\* the module of the file readdir returns last among those of region n
LastLoaded(n) ==
  LET k == CHOOSE k \in FilesOf(n) : \A j \in FilesOf(n) : j <= k
  IN [label |-> MapLabel(dir_order[k]), traces |-> dir[dir_order[k]]]

\* C13: after a scan of the cache directory the table has one entry per
\* region name of a cache file, the module of the file loaded last for that
\* name, and a second scan of the same directory leaves the table of the
\* first scan.
C13_RehydrationIdempotent ==
  (main.pc = "done")
  => /\ DOMAIN aot_traces = {n \in {"text", "heap", ""} : FilesOf(n) # {}}
     /\ \A n \in DOMAIN aot_traces : aot_traces[n] = LastLoaded(n)
     /\ main.scans >= 2 => aot_traces = scan1

\* C13 witness: the directory was scanned twice and two of its files belong
\* to regions of one name
C13_Witness ==
  /\ main.pc = "done" /\ main.scans = 2
  /\ Cardinality(FilesOf("text")) = 2
  /\ aot_traces = scan1

SeqMin(sq) == CHOOSE a \in SeqRange(sq) : \A b \in SeqRange(sq) : a <= b

SeqMax(sq) == CHOOSE a \in SeqRange(sq) : \A b \in SeqRange(sq) : b <= a

\* C14: a worker that has ended wrote one cache file, 0x<start>-0x<end> in
\* hexadecimal with start the lowest and end the highest address of its
\* batch, and the directory holds one file per ended worker.
C14_CacheFileName ==
  /\ \A i \in WorkerIds :
       WorkerDone(i)
       => /\ store_name(workers[i])
               = FileName(SeqMin(workers[i].assigned), SeqMax(workers[i].assigned))
          /\ store_name(workers[i]) \in CacheFiles
          /\ SubSeq(store_name(workers[i]), 1, 2) = <<"0", "x">>
          /\ MapLabel(store_name(workers[i])) = SeqMin(workers[i].assigned)
  /\ Cardinality(CacheFiles) = Cardinality({i \in WorkerIds : WorkerDone(i)})

\* C14 witness: a worker with a batch of two addresses wrote its file
C14_Witness ==
  \E i \in WorkerIds :
    /\ WorkerDone(i)
    /\ Len(workers[i].assigned) = 2
    /\ store_name(workers[i]) \in CacheFiles
\* the step is one of worker i's LiftMapping
WorkerStep(i) ==
  workers[i].pc \in {"begin", "lift"} /\ workers'[i] # workers[i]

RECURSIVE AssignedFrom(_)
\* the batches of workers k, k+1, ... one after the other
AssignedFrom(k) ==
  IF k > Len(workers) THEN <<>> ELSE workers[k].assigned \o AssignedFrom(k + 1)

\* C28: the batches handed to the workers are the trace list cut into
\* non-empty pieces, in file order; a piece ends exactly where the next
\* address is not in the mapped region of the piece's first address, so a
\* batch lies in one mapped region
C28_BatchesPartition ==
  (main.pc # "decode" /\ trace_list.exists /\ trace_list.opens)
  => /\ AssignedFrom(1) = trace_list.addrs
     /\ \A i \in WorkerIds :
          /\ workers[i].assigned # <<>>
          /\ \A k \in 1 .. Len(workers[i].assigned) :
               IsSameMappedRange(workers[i].assigned[k], workers[i].assigned[1])
          /\ i > 1 => ~IsSameMappedRange(workers[i].assigned[1],
                                         workers[i - 1].assigned[1])

\* C28 witness: a list of three addresses was cut into a batch of two and a
\* batch of one
C28_Witness ==
  /\ main.pc = "spawn"
  /\ Len(trace_list.addrs) = 3
  /\ Len(workers) = 2
  /\ Len(workers[1].assigned) = 2 /\ Len(workers[2].assigned) = 1

C39_EveryBatchRegistered ==
  main.pc = "done"
  => \A i \in WorkerIds :
       LET n == store_name(workers[i])
           page_name == RangeName(MapLabel(n))
       IN /\ n \in CacheFiles
          /\ page_name \in DOMAIN aot_traces
          /\ aot_traces[page_name] = [label |-> MapLabel(n), traces |-> dir[n]]

\* ====================================================== claims: file intercepts
\* C15 (as claimed): once an fstat or a stat has succeeded, get_fstat_index(i)
\* returns, for i in 0..9, field i of the result of the latest successful call.
C15_FstatFields ==
  (lastOp.op = "get_fstat_index" /\ lastOp.addr \in 0 .. 9 /\ hostLast.stat # <<>>
     /\ alive)
  => local = Bound(create(U64(hostLast.stat[lastOp.addr + 1]), 64), 1)

\* field i of a struct dirent, as a 64-bit value
DirentField(d, i) ==
  Truncate(<<d.d_ino, d.d_off, d.d_reclen, d.d_type>>[i + 1], 64)

\* C16 (as claimed): after a successful readdir, get_dirent_index(0..3)
\* return inode, offset, record length and type of that entry, get_dirent_name
\* returns its name, and readdir at the end of the directory returns false.
C16_DirentFields ==
  /\ (lastOp.op = "get_dirent_index" /\ lastOp.addr \in 0 .. 3
        /\ hostLast.dirent # NoDirent)
       => local = Bound(Const(DirentField(hostLast.dirent, lastOp.addr), 64), 1)
  /\ (lastOp.op = "get_dirent_name" /\ hostLast.dirent # NoDirent)
       => /\ local = Bound(createPointer(NameBuf), 1)
          /\ dirent_entry.d_name = hostLast.dirent.d_name
  /\ (lastOp.op = "readdir" /\ ~lastOp.performed)
       => local = Bound(createBool(FALSE), 1)

\* C17 (as claimed): the stat cache holds the ten fields of the most recent
\* successful fstat or stat and nothing of an earlier one, in every state
\* after a successful call.
C17_StatCacheLastWins ==
  (hostLast.stat # <<>>)
  => /\ Len(fstat_vector) = 10
     /\ \A i \in 1 .. 10 : fstat_vector[i] = hostLast.stat[i]

\* C18: a failing fstat or stat returns -1 and leaves EFAULT as the error
\* code; a successful one returns 0 and leaves 0.
C18_StatResult ==
  (lastOp.op \in {"fstat", "stat"})
  => /\ alive
     /\ local.nbind = 1
     /\ lastOp.performed
          => (local.val = Const(U64(0), 64) /\ errno = 0)
     /\ ~lastOp.performed
          => (local.val = Const(AllOnes(32), 32) /\ errno = EFAULT)

\* C18 witness: a stat failed after a successful fstat had set the error
\* code to 0
C18_Witness ==
  /\ lastOp.op = "stat" /\ ~lastOp.performed
  /\ fstat_vector # <<>>
  /\ errno = EFAULT

\* C19: open returns the host's file descriptor and error code 0 on success,
\* -1 and error code ENOENT on every failure.
C19_OpenResult ==
  (lastOp.op = "openat")
  => /\ alive
     /\ local.nbind = 1
     /\ lastOp.performed
          => (local.val = Const(U64(lastOp.addr), 64) /\ lastOp.addr \in Fds
                /\ errno = 0)
     /\ ~lastOp.performed
          => (local.val = Const(AllOnes(32), 32) /\ errno = ENOENT)

\* C19 witness: an open failed right after a failed stat had left EFAULT
C19_Witness ==
  /\ lastOp.op = "openat" /\ ~lastOp.performed
  /\ errno = ENOENT
  /\ local.val = Const(AllOnes(32), 32)
\* C37: a failing fstat or stat and a readdir at the end of the directory
\* leave both caches as they were, so every getter whose result the cache
\* decides returns after the call what it returned before it
C37_FailureKeepsCache ==
  [][(lastOp'.op \in {"fstat", "stat", "readdir"} /\ ~lastOp'.performed)
     => /\ fstat_vector' = fstat_vector
        /\ dirent_entry' = dirent_entry
        /\ \A i \in 0 .. 3 : dirent_field(i)' = dirent_field(i)]_vars

\* C37 witness: an fstat failed after a successful one had filled the cache
\* and a readdir had stored an entry; the cache still holds both
C37_Witness ==
  /\ lastOp.op = "fstat" /\ ~lastOp.performed
  /\ local = Bound(create(MinusOne, 32), 1)
  /\ fstat_vector = StatB
  /\ dirent_entry = DirentB

\* C38 (as claimed): get_fstat_index reads an element that exists in the stat
\* cache, in every state and for every index.
C38_FstatIndexInBounds ==
  lastOp.op = "get_fstat_index" => lastOp.addr < Len(fstat_vector)

\* ================================================ claims: allocator intercepts
\* C20: a realloc of the null pointer produces what a malloc of the same size
\* produces for the same answer of the tracked allocator: the same return
\* value, the same memory handle, the same abort or no-abort outcome
C20_ReallocNullIsMalloc ==
  (intercept.fn = "realloc" /\ intercept.args_ok /\ intercept.ptr = Null)
  => intercept.out = malloc_outcome(TRUE, intercept.size, intercept.answer)

\* C21: a realloc of a non-null pointer to size zero ends the way a free of
\* that pointer ends: null is returned or the call is left to the host, no
\* address comes back (nothing is allocated) and the process is not aborted
C21_ReallocZeroIsFree ==
  (intercept.fn = "realloc" /\ intercept.args_ok /\ intercept.ptr # Null
     /\ intercept.size = Null)
  => intercept.out \in {free_outcome(TRUE, freed) : freed \in BOOLEAN}

\* C22: a malloc of size zero, and a calloc with a zero count or a zero
\* element size, return the null pointer and call neither malloc_intercept
\* nor calloc_intercept
C22_ZeroSizeReturnsNull ==
  (/\ intercept.args_ok
   /\ \/ intercept.fn = "malloc" /\ intercept.size = Null
      \/ intercept.fn = "calloc" /\ (intercept.num = Null \/ intercept.size = Null))
  => /\ intercept.out = SetReturn(1, Null)
     /\ intercept.consulted = "none"

C22_Witness ==
  /\ intercept.fn = "malloc" /\ intercept.args_ok /\ intercept.size = Null
  /\ intercept.out.ret = Null
  /\ intercept.consulted = "none"

\* C23: when realloc_intercept answers with one of the four invalid-pointer
\* sentinels, the realloc intercept aborts the process and sets no return
\* value
ReallocSentinels ==
  {kReallocInternalPtr, kReallocTooBig, kReallocInvalidPtr, kReallocFreedPtr}

C23_ReallocSentinelAborts ==
  (intercept.fn = "realloc" /\ intercept.consulted = "realloc_intercept"
     /\ intercept.answer \in ReallocSentinels)
  => intercept.out.aborted /\ intercept.out.ret = <<>>

C23_Witness ==
  /\ intercept.fn = "realloc" /\ intercept.consulted = "realloc_intercept"
  /\ intercept.answer = kReallocFreedPtr
  /\ intercept.out.aborted

\* every out-of-band value a tracked allocator answers with
AllocSentinels == {kBadAddr, kMallocTooBig} \cup ReallocSentinels

\* C35 (as claimed): no allocator intercept returns a sentinel as the pointer:
\* when the tracked allocator answers with one, the intercept sets no return
\* value and returns the memory handle, or aborts.
C35_NoSentinelReturned ==
  (/\ intercept.fn \in {"malloc", "calloc", "realloc", "memalign"}
   /\ intercept.consulted # "none"
   /\ intercept.answer \in AllocSentinels)
  => (intercept.out = FallBack \/ intercept.out = Abort)

\* a 64-bit value as 128 bits
Wide(a) == a \o [i \in 1 .. 8 |-> 0]

RECURSIVE WideDigits(_, _, _, _)
\* the sixteen bytes of a * b, byte k onwards, carry coming in
WideDigits(a, b, k, carry) ==
  IF k > 16 THEN <<>>
  ELSE LET sum == carry + SumProducts(a, b, k, 1)
       IN <<sum % 256>> \o WideDigits(a, b, k + 1, sum \div 256)

\* num * size as a number, not as an addr_t
Product(a, b) == WideDigits(Wide(a), Wide(b), 1, 0)

\* C36 (as claimed): calloc takes the null-pointer path only for a zero num
\* or a zero size, and the size it asks the tracked allocator for is the
\* product num * size, never that product modulo 2^64.
C36_CallocExactProduct ==
  (intercept.fn = "calloc" /\ intercept.args_ok)
  => /\ (intercept.consulted = "none")
          <=> (intercept.num = Null \/ intercept.size = Null)
     /\ intercept.consulted # "none"
          => Wide(intercept.request) = Product(intercept.num, intercept.size)

AtMaxWork ==
  /\ pass.pc = "scan"
  /\ pass.inst_addr < LimitAddress /\ pass.work_on_trace
  /\ ~ENABLED LinearSweepPass_scan

====
